---- MODULE Spec2Model ----
(***************************************************************************)
(* Model of automated_cookie_eval.py: one browser session driven by        *)
(* browse_and_track_cookies, its event listeners (handle_new_page,         *)
(* log_response_status, the request-header capture), the login handler     *)
(* handle_cognito_login and the cookie mutation modify_auth_cookies.       *)
(*                                                                         *)
(* The main flow is a sequence of awaits; each await is one step of the    *)
(* model (variable pc), in the login handler as in the loop, and the       *)
(* listeners and the steps of the new-tab task may run between any two of  *)
(* them, as they do on the asyncio event loop.  The browser is             *)
(* the environment: every browser call either succeeds or raises, and what *)
(* it returns (URLs, anchors, cookies, DOM visibility) is drawn from small *)
(* pools.  Strings are TLA+ strings; lower(), "in" and startswith are      *)
(* computed on their characters.                                           *)
(***************************************************************************)
EXTENDS Integers, Sequences, FiniteSets, TLC

(* ------------------------------------------------------------------ *)
(* Bounds of the model                                                 *)
(* ------------------------------------------------------------------ *)

\* Longest session (seconds) the model runs the browsing loop for.
MaxDuration == 25
\* Extra seconds a tick's browser operations may take on top of the sleep.
OpDelay == 5
\* Most new tabs the site opens during a session.
MaxNewTabs == 1

(* ------------------------------------------------------------------ *)
(* Program constants                                                   *)
(* ------------------------------------------------------------------ *)

\* asyncio.sleep(10) at the end of every tick.
TickSleepSeconds == 10
\* asyncio.sleep(60): the manual-login grace period.
LoginGrace == 60
\* asyncio.sleep(1): the short pauses of the scripted login.
ShortPause == 1
\* random.randint(0, min(9, ...)): the highest index the random click picks.
MaxRandomIndex == 9

(* ------------------------------------------------------------------ *)
(* Strings: str.lower(), "x in s", s.startswith(p), rstrip/lstrip('/') *)
(* ------------------------------------------------------------------ *)

UpperChars == "ABCDEFGHIJKLMNOPQRSTUVWXYZ"
LowerChars == "abcdefghijklmnopqrstuvwxyz"

CharAt(s, i) == SubSeq(s, i, i)

LowerChar(c) ==
    IF \E i \in 1..Len(UpperChars) : CharAt(UpperChars, i) = c
    THEN CharAt(LowerChars, CHOOSE i \in 1..Len(UpperChars) : CharAt(UpperChars, i) = c)
    ELSE c

RECURSIVE ToLower(_)
ToLower(s) == IF Len(s) = 0 THEN "" ELSE LowerChar(CharAt(s, 1)) \o ToLower(Tail(s))

\* Python's "w in s" for strings.
Contains(s, w) ==
    \E i \in 1..(Len(s) - Len(w) + 1) : SubSeq(s, i, i + Len(w) - 1) = w

StartsWith(s, p) == Len(s) >= Len(p) /\ SubSeq(s, 1, Len(p)) = p

RECURSIVE RStripSlash(_)
RStripSlash(s) ==
    IF Len(s) > 0 /\ CharAt(s, Len(s)) = "/" THEN RStripSlash(SubSeq(s, 1, Len(s) - 1)) ELSE s

RECURSIVE LStripSlash(_)
LStripSlash(s) ==
    IF Len(s) > 0 /\ CharAt(s, 1) = "/" THEN LStripSlash(Tail(s)) ELSE s

Min(a, b) == IF a < b THEN a ELSE b

(* ------------------------------------------------------------------ *)
(* What the browser can return                                         *)
(* ------------------------------------------------------------------ *)

\* url, the first command-line argument.
StartUrl == "https://app.example/"
DocsUrl == "https://app.example/docs"
CognitoUrl == "https://idp.auth.amazoncognito.com/login"
BlankUrl == "about:blank"
\* Where a navigation of the main page can land (redirects included).
Urls == {StartUrl, CognitoUrl}

\* Cookies as the context reports them: dictionaries, with or without 'expires'.
CookieA == [name |-> "sid", value |-> "v1", domain |-> "app.example", path |-> "/",
            expires |-> 1900000000]
CookieB == [name |-> "sid", value |-> "v2", domain |-> "idp.example", path |-> "/"]
CookieC == [name |-> "theme", value |-> "dark", domain |-> "app.example", path |-> "/"]
CookiePool == {CookieA, CookieB, CookieC}

\* The identity of a cookie in the context: adding one replaces its namesake
\* of the same domain and path.
CookieKey(c) == <<c.name, c.domain, c.path>>

\* context.add_cookies(cs)
AddCookies(store, cs) ==
    {c \in store : \A d \in cs : CookieKey(d) # CookieKey(c)} \cup cs

\* An anchor element: get_attribute('href') gives None when has_href is FALSE.
Anchor(h) == [has_href |-> TRUE, href |-> h]
NoHrefAnchor == [has_href |-> FALSE, href |-> ""]

\* Number of anchors of the long page.
LongPageLen == 12

PageEmpty == << >>
PageMixed ==
    << Anchor("/docs"), Anchor("/Install/now"), NoHrefAnchor, Anchor("#top"),
       Anchor("https://www.GOOGLE.com/"), Anchor(""), Anchor("javascript:void(0)"),
       Anchor("https://app.example/about") >>
PageBlocked == << Anchor("/uninstall"), Anchor("/FORGOT-password") >>
PageLong ==
    <<Anchor("/help/install")>>
        \o [i \in 1..LongPageLen |-> Anchor("/p/" \o CharAt(LowerChars, i))]
\* What page.query_selector_all('a') can return.
Pages == {PageEmpty, PageMixed, PageBlocked, PageLong}

\* The selectors of the login form, and per selector the visibility of the
\* elements query_selector_all returns, in page order.
SelUser1 == "#signInFormUsername"
SelUser2 == "input[name=\"username\"]"
SelPass1 == "#signInFormPassword"
SelPass2 == "input[type=\"password\"]"
SelSubmit1 == "input[name=\"signInSubmitButton\"]"
SelSubmit2 == "input[type=\"submit\"]"

DomOf(u1, u2, p1, p2, s1, s2) ==
    (SelUser1 :> u1) @@ (SelUser2 :> u2) @@ (SelPass1 :> p1) @@ (SelPass2 :> p2)
        @@ (SelSubmit1 :> s1) @@ (SelSubmit2 :> s2)
Dup == <<FALSE, TRUE>>
Hidden == <<FALSE, FALSE>>
None == << >>
DomFull == DomOf(Dup, Dup, Dup, Dup, Dup, Dup)
DomSecondSelector == DomOf(None, <<TRUE>>, Hidden, <<TRUE>>, None, Dup)
DomNoUser == DomOf(Hidden, None, Dup, Dup, Dup, Dup)
DomNoPass == DomOf(Dup, Dup, None, Hidden, Dup, Dup)
DomNoSubmit == DomOf(Dup, Dup, Dup, Dup, Hidden, Hidden)
Doms == {DomFull, DomSecondSelector, DomNoUser, DomNoPass, DomNoSubmit}

\* Header names and values are Python strings whose UTF-8 length matters:
\* they are sequences of Unicode code points.  Text(s) is the text of an
\* ASCII literal.
\* The ASCII characters the literals use, by the code of the first of each run.
AsciiRuns ==
    << [first |-> 45, chars |-> "-./0123456789:;<=>?@" \o UpperChars],
       [first |-> 95, chars |-> "_"],
       [first |-> 97, chars |-> LowerChars] >>
CodePoint(c) ==
    LET r == CHOOSE r \in 1..Len(AsciiRuns) :
                 \E i \in 1..Len(AsciiRuns[r].chars) : CharAt(AsciiRuns[r].chars, i) = c
        i == CHOOSE i \in 1..Len(AsciiRuns[r].chars) : CharAt(AsciiRuns[r].chars, i) = c
    IN  AsciiRuns[r].first + i - 1
Text(s) == [i \in 1..Len(s) |-> CodePoint(CharAt(s, i))]

\* request.headers of a request: a dict, here its items() in iteration order.
\* NoHeaders is what "not headers" is true of: None and the empty dict.
Header(name, value) == [name |-> name, value |-> value]
NoHeaders == << >>
HeadersA == <<Header(Text("host"), Text("app.example")), Header(Text("cookie"), Text("sid=v1"))>>
HeaderPool == {HeadersA}

\* A response as log_response_status reads it: status and location header.
Responses ==
    { [status |-> 200, location |-> ""],
      [status |-> 302, location |-> CognitoUrl],
      [status |-> 302, location |-> DocsUrl],
      [status |-> 404, location |-> CognitoUrl] }

\* The command lines the model starts from: refresh, return and cookie-mod
\* intervals in seconds (the duration is MaxDuration).
Intervals ==
    { [refresh |-> 10, return |-> 20, cookie_mod |-> 30],
      [refresh |-> 10, return |-> 10, cookie_mod |-> 20],
      [refresh |-> 10, return |-> 10, cookie_mod |-> 12],
      [refresh |-> 10, return |-> 10, cookie_mod |-> 10] }
\* The cookies the site sets on the first navigation.
StartStores == {{CookieA}, {CookieB, CookieC}, CookiePool}

\* The site a session browses: the cookies its first page can set, what
\* page.query_selector_all('a') can return on it, and how many "page" events
\* (new tabs) the context reports during the session.
BaseSite == [stores |-> {CookiePool}, pages |-> {PageEmpty}, tabs |-> 0]
\* One session: the environment's credentials, the command line, the site.
\* In the base session no password is set: the operator logs in by hand.
BaseSession ==
    [username |-> "user", password |-> "",
     intervals |-> [refresh |-> 10, return |-> 20, cookie_mod |-> 30],
     duration |-> MaxDuration, site |-> BaseSite]
\* The session in which the scripted login has its credentials.
ScriptedSession ==
    [BaseSession EXCEPT !.username = "user", !.password = "secret",
                        !.intervals = [refresh |-> 10, return |-> 10, cookie_mod |-> 12]]
\* The session in which the site sets other cookies.
StoresSession ==
    [BaseSession EXCEPT !.intervals = [refresh |-> 10, return |-> 10, cookie_mod |-> 10],
                        !.site.stores = StartStores]
\* The session in which the site's pages have anchors to click: with the
\* base intervals only the first tick clicks, and the session lasts one tick.
PagesSession ==
    [BaseSession EXCEPT !.site.pages = Pages, !.duration = TickSleepSeconds]
\* The session in which the site opens new tabs, of one tick too.
NewTabSession ==
    [BaseSession EXCEPT !.site.tabs = MaxNewTabs, !.duration = TickSleepSeconds]
\* The sessions the model starts from: the base session with its intervals,
\* its credentials, the site's cookies, the site's pages or the site's new
\* tabs varied.
Sessions ==
    {[BaseSession EXCEPT !.intervals = i] : i \in Intervals}
        \cup {ScriptedSession, StoresSession, PagesSession, NewTabSession}

(* ------------------------------------------------------------------ *)
(* State                                                               *)
(* ------------------------------------------------------------------ *)

VARIABLES
    pc,                         \* the await the main flow is at
    now,                        \* time.time(), counted from the moment the
                                \* loop's clock is started: it is not read before
    COGNITO_USERNAME, COGNITO_PASSWORD,
    browse_duration, refresh_interval, return_interval, cookie_mod_interval,
    site,                       \* the site the session browses
    start_time, last_refresh_time, last_return_time, last_cookie_mod_time,
    current_time,
    url,                        \* page.url of the main page
    cookies,                    \* the cookies of the context
    cognito_redirect_detected,
    request_headers, capture_armed,
    capture_tasks,              \* requests whose capture handler is scheduled
    header_size,
    tab,                        \* the task running handle_new_page
    all_cookies, modified_cookies,  \* locals of modify_auth_cookies
    ops,                        \* browser calls modify_auth_cookies has made
    mod_status,                 \* how the last modify_auth_cookies ended
    performed,                  \* scheduler branches entered on this tick
    caught,                     \* failures caught and logged on this tick
    links, link, filtered_links, random_choice,
    clicked, navigated,         \* what the click branch clicked / went to
    login,                      \* the run of handle_cognito_login
    crash_site,                 \* where an exception left the function
    browser_closed, complete_logged

timers == <<start_time, last_refresh_time, last_return_time,
            last_cookie_mod_time, current_time>>
clock == <<now, timers>>
config == <<COGNITO_USERNAME, COGNITO_PASSWORD, refresh_interval, return_interval,
            cookie_mod_interval, site>>
params == <<config, browse_duration>>
capture == <<request_headers, capture_armed>>
heard == <<cognito_redirect_detected, capture, capture_tasks>>
modvars == <<all_cookies, modified_cookies, ops, mod_status>>
clickvars == <<links, link, filtered_links, random_choice, clicked, navigated>>
endvars == <<crash_site, browser_closed, complete_logged>>
vars == <<pc, clock, params, url, cookies, heard, header_size, tab, modvars,
          performed, caught, clickvars, login, endvars>>

\* The form of the login page before the handler has queried it.
NoDom == << >>
\* The run of the login handler:
\*   site      the call site, "initial" (line 435) or "tick" (line 364)
\*   path      the branch the run ended in
\*   prompted  a manual-login prompt was printed
\*   slept     the seconds the run has slept
\*   dom       the form as the page's queries report it
\*   step, sel, idx   the form step (1 username, 2 password, 3 submit), the
\*             selector and the element find_visible_element is at
\*   acted     the elements clicked, in order
\*   failures  what went wrong: the wait for the login page raised
\*             ("login_page"), the page was closed ("closed"), a call on the
\*             form raised ("call"), the wait for the URL change or for the
\*             load after the submit raised ("url_change", "load"), an
\*             exception reached the nav_error handler ("nav_error")
NoLogin ==
    [site |-> "none", path |-> "none", prompted |-> FALSE, slept |-> 0, dom |-> NoDom,
     step |-> 0, sel |-> 0, idx |-> 0, acted |-> << >>, failures |-> {}]
Failed(l, what) == [l EXCEPT !.failures = @ \cup {what}]
NoChoice == 0 - 1
\* header_size before its first assignment.
NoSize == 0 - 1
\* The handler task of the new tab:
\*   at        the await the task is at ("none": no task yet)
\*   opened    the "page" events the context has reported
\*   main      the event was for the main page
\*   loaded    new_page.wait_for_load_state returned
\*   new_url   new_page.url
\*   closes    the new_page.close() calls made
\*   goto      the URL page.goto was called with, "" when it was not called
NoTab ==
    [at |-> "none", opened |-> 0, main |-> FALSE, loaded |-> FALSE, new_url |-> "",
     closes |-> 0, goto |-> ""]

SessionInit(s) ==
    /\ pc = "goto_start"
    /\ now = 0
    /\ COGNITO_USERNAME = s.username /\ COGNITO_PASSWORD = s.password
    /\ browse_duration = s.duration
    /\ refresh_interval = s.intervals.refresh
    /\ return_interval = s.intervals.return
    /\ cookie_mod_interval = s.intervals.cookie_mod
    /\ site = s.site
    /\ start_time = 0 /\ last_refresh_time = 0 /\ last_return_time = 0
    /\ last_cookie_mod_time = 0 /\ current_time = 0
    /\ url = BlankUrl
    /\ cookies = {}
    /\ cognito_redirect_detected = FALSE
    /\ request_headers = NoHeaders /\ capture_armed = FALSE /\ capture_tasks = << >>
    /\ header_size = NoSize
    /\ tab = NoTab
    /\ all_cookies = {} /\ modified_cookies = {} /\ ops = << >> /\ mod_status = "none"
    /\ performed = {} /\ caught = {}
    /\ links = << >> /\ link = 0 /\ filtered_links = << >> /\ random_choice = NoChoice
    /\ clicked = "" /\ navigated = ""
    /\ login = NoLogin
    /\ crash_site = "" /\ browser_closed = FALSE /\ complete_logged = FALSE

Init == \E s \in Sessions : SessionInit(s)

\* An exception that no handler catches leaves browse_and_track_cookies.
Crash(where) ==
    /\ pc' = "crashed"
    /\ crash_site' = where
    /\ UNCHANGED <<browser_closed, complete_logged>>

(* ------------------------------------------------------------------ *)
(* calculate_header_size                                               *)
(* ------------------------------------------------------------------ *)

\* The number of bytes of one code point in UTF-8.
EncodedBytes_OnePerCharacter(cp) == 1

EncodedBytes(cp) ==
    IF cp < 128 THEN 1 ELSE IF cp < 2048 THEN 2 ELSE IF cp < 65536 THEN 3 ELSE 4

\* len(s.encode('utf-8'))
RECURSIVE Utf8Len(_)
Utf8Len(s) == IF Len(s) = 0 THEN 0 ELSE EncodedBytes(Head(s)) + Utf8Len(Tail(s))

\* The for loop over headers.items(), from item i on: per header the key,
\* the value, 2 for ": " and 2 for the CRLF.
RECURSIVE HeaderLinesSize(_, _)
HeaderLinesSize(headers, i) ==
    IF i > Len(headers) THEN 0
    ELSE Utf8Len(headers[i].name) + Utf8Len(headers[i].value) + 2 + 2
            + HeaderLinesSize(headers, i + 1)

\* calculate_header_size(headers): 0 when "not headers", else the header
\* lines and the final CRLF.
calculate_header_size(headers) ==
    IF headers = NoHeaders THEN 0 ELSE HeaderLinesSize(headers, 1) + 2

\* if request_headers: header_size = calculate_header_size(request_headers)
MeasureHeaders ==
    header_size' = IF request_headers # NoHeaders
                   THEN calculate_header_size(request_headers)
                   ELSE header_size

(* ------------------------------------------------------------------ *)
(* handle_cognito_login: one action per await                          *)
(* ------------------------------------------------------------------ *)

\* The selector lists of the three form steps, in the order of the steps.
StepSelectors ==
    <<<<SelUser1, SelUser2>>, <<SelPass1, SelPass2>>, <<SelSubmit1, SelSubmit2>>>>
\* The branch taken when a step's element is not found.
NotFoundPath == <<"no_username", "no_password", "no_submit">>

\* The handler goes on to its next await.
LoginGoes(at, l) ==
    /\ pc' = at
    /\ login' = l
    /\ UNCHANGED cognito_redirect_detected

\* print('... Please login manually within 60 seconds.'): the handler goes
\* to its asyncio.sleep(60).
Prompt(path, l) == LoginGoes("login_grace", [l EXCEPT !.path = path, !.prompted = TRUE])

\* The handler returns to its call site: line 436 resets the flag, the tick
\* goes on to its cookie snapshot.
LoginReturns(path, l) ==
    /\ login' = [l EXCEPT !.path = path]
    /\ IF l.site = "initial"
       THEN /\ pc' = "initial_cookies"
            /\ cognito_redirect_detected' = FALSE
       ELSE /\ pc' = "tick_cookies"
            /\ UNCHANGED cognito_redirect_detected

\* await asyncio.sleep(seconds) inside the handler.
LoginSleeps(seconds) == now' = IF login.site = "tick" THEN now + seconds ELSE now

\* What no step of the handler writes.
LoginFrame ==
    UNCHANGED <<timers, params, cookies, request_headers, capture_armed, capture_tasks,
                header_size, tab, modvars, performed, caught, clickvars, endvars>>

\* await page.wait_for_load_state('domcontentloaded', timeout=30000), then the
\* test of the credentials and page.is_closed().
LoginWaitLoad ==
    /\ pc = "login_wait_load"
    /\ \/ IF COGNITO_USERNAME # "" /\ COGNITO_PASSWORD # ""
          THEN \/ Prompt("page_closed", Failed(login, "closed"))
               \/ LoginGoes("login_settle", login)
          ELSE Prompt("no_credentials", login)
       \/ Prompt("outer_error", Failed(login, "login_page"))
    /\ UNCHANGED <<now, url>>
    /\ LoginFrame

\* await asyncio.sleep(1), then find_visible_element for the username.
LoginSettle ==
    /\ pc = "login_settle"
    /\ LoginGoes("login_query",
                 [login EXCEPT !.slept = @ + ShortPause, !.step = 1, !.sel = 1, !.idx = 0])
    /\ LoginSleeps(ShortPause)
    /\ UNCHANGED url
    /\ LoginFrame

\* element.is_visible() as the form reports it.
IsVisible_Always(dom, selector, idx) == TRUE

IsVisible(dom, selector, idx) == dom[selector][idx]

\* The for loop over the selectors goes on after a selector's elements: the
\* next selector, or "return None" and the branch of the element not found.
AfterSelector_StopsAtFirst(l) == Prompt(NotFoundPath[l.step], l)

AfterSelector(l) ==
    IF l.sel < Len(StepSelectors[l.step])
    THEN LoginGoes("login_query", [l EXCEPT !.sel = @ + 1, !.idx = 0])
    ELSE Prompt(NotFoundPath[l.step], l)

\* elements = await page.query_selector_all(selector)
LoginQuery ==
    /\ pc = "login_query"
    /\ \/ \E dom \in (IF login.dom = NoDom THEN Doms ELSE {login.dom}) :
             LET l == [login EXCEPT !.dom = dom]
                 elements == dom[StepSelectors[l.step][l.sel]]
             IN  IF elements = << >>
                 THEN AfterSelector(l)
                 ELSE LoginGoes("login_visible", [l EXCEPT !.idx = 1])
       \/ Prompt("login_error", Failed(login, "call"))
    /\ UNCHANGED <<now, url>>
    /\ LoginFrame

\* if await element.is_visible(): return element
LoginVisible ==
    /\ pc = "login_visible"
    /\ \/ LET selector == StepSelectors[login.step][login.sel]
          IN  IF IsVisible(login.dom, selector, login.idx)
              THEN LoginGoes("login_click", login)
              ELSE IF login.idx < Len(login.dom[selector])
              THEN LoginGoes("login_visible", [login EXCEPT !.idx = @ + 1])
              ELSE AfterSelector(login)
       \/ Prompt("login_error", Failed(login, "call"))
    /\ UNCHANGED <<now, url>>
    /\ LoginFrame

\* find_visible_element(selectors): its two awaits.
find_visible_element == LoginQuery \/ LoginVisible

\* await username_field.click() / password_field.click() / submit_button.click():
\* the submit navigates the page.
LoginClick ==
    /\ pc = "login_click"
    /\ LET element == [sel |-> StepSelectors[login.step][login.sel], idx |-> login.idx]
           l == [login EXCEPT !.acted = Append(@, element)]
       IN  \/ IF l.step < 3
              THEN /\ LoginGoes("login_clear", l)
                   /\ UNCHANGED url
              ELSE /\ LoginGoes("login_wait_function", l)
                   /\ \E u \in Urls : url' = u
           \/ /\ Prompt("login_error", Failed(l, "call"))
              /\ UNCHANGED url
    /\ UNCHANGED now
    /\ LoginFrame

\* await field.fill("")
LoginClear ==
    /\ pc = "login_clear"
    /\ \/ LoginGoes("login_fill", login)
       \/ Prompt("login_error", Failed(login, "call"))
    /\ UNCHANGED <<now, url>>
    /\ LoginFrame

\* await field.fill(COGNITO_USERNAME) / field.fill(COGNITO_PASSWORD)
LoginFill ==
    /\ pc = "login_fill"
    /\ \/ LoginGoes("login_pause", login)
       \/ Prompt("login_error", Failed(login, "call"))
    /\ UNCHANGED <<now, url>>
    /\ LoginFrame

\* await asyncio.sleep(1), then find_visible_element for the next step.
LoginPause ==
    /\ pc = "login_pause"
    /\ LoginGoes("login_query",
                 [login EXCEPT !.slept = @ + ShortPause, !.step = @ + 1, !.sel = 1,
                               !.idx = 0])
    /\ LoginSleeps(ShortPause)
    /\ UNCHANGED url
    /\ LoginFrame

\* await page.wait_for_function('() => true', timeout=10000) in its own try.
LoginWaitFunction ==
    /\ pc = "login_wait_function"
    /\ \/ LoginGoes("login_wait_loaded", login)
       \/ LoginGoes("login_wait_loaded", Failed(login, "url_change"))
    /\ UNCHANGED <<now, url>>
    /\ LoginFrame

\* await page.wait_for_load_state('domcontentloaded', timeout=15000) in its
\* own try, then the message of line 318; an exception outside the two inner
\* trys (from the logging) reaches the nav_error handler, which tests page.url.
LoginWaitLoaded ==
    /\ pc = "login_wait_loaded"
    /\ \E l \in {login, Failed(login, "load")} :
          \/ LoginReturns(IF l.failures = {} THEN "completed" ELSE "completed_after_timeout",
                          l)
          \/ IF Contains(ToLower(url), "login") \/ Contains(ToLower(url), "signin")
             THEN LoginGoes("login_error_query", Failed(l, "nav_error"))
             ELSE LoginReturns("url_changed", Failed(l, "nav_error"))
    /\ UNCHANGED <<now, url>>
    /\ LoginFrame

\* error_element = await page.query_selector('.error-message, .alert-error')
LoginErrorQuery ==
    /\ pc = "login_error_query"
    /\ \/ LoginGoes("login_error_text", login)
       \/ Prompt("login_failed", login)
       \/ Prompt("login_error", Failed(login, "call"))
    /\ UNCHANGED <<now, url>>
    /\ LoginFrame

\* error_text = await error_element.text_content()
LoginErrorText ==
    /\ pc = "login_error_text"
    /\ \/ Prompt("login_failed", login)
       \/ Prompt("login_error", Failed(login, "call"))
    /\ UNCHANGED <<now, url>>
    /\ LoginFrame

\* await asyncio.sleep(60): the operator may log in meanwhile; the handler
\* returns.
LoginGraceSleep ==
    /\ pc = "login_grace"
    /\ LoginReturns(login.path, [login EXCEPT !.slept = @ + LoginGrace])
    /\ LoginSleeps(LoginGrace)
    /\ \E u \in Urls \cup {url} : url' = u
    /\ LoginFrame

handle_cognito_login ==
    \/ LoginWaitLoad \/ LoginSettle \/ find_visible_element \/ LoginClick
    \/ LoginClear \/ LoginFill \/ LoginPause \/ LoginWaitFunction \/ LoginWaitLoaded
    \/ LoginErrorQuery \/ LoginErrorText \/ LoginGraceSleep

\* The call of the handler from one of its two sites.
LoginEnter(from) ==
    /\ pc' = "login_wait_load"
    /\ login' = [NoLogin EXCEPT !.site = from, !.path = "entered"]

\* check_and_handle_cognito_login's test of the current URL.
IsCognitoUrl(current_url) ==
    Contains(current_url, "awscognito") \/ Contains(current_url, "amazoncognito")

(* ------------------------------------------------------------------ *)
(* Event listeners                                                     *)
(* ------------------------------------------------------------------ *)

\* The main flow has not ended: browse_and_track_cookies has neither
\* returned nor raised.
SessionOpen == pc \notin {"done", "crashed"}

\* log_response_status(response), the body of the handler registered with
\* page.on("response", ...): only the flag is state, the rest is logging.
\* The emit only schedules the body, which runs in a later turn of the event
\* loop, also when the main flow has ended in between: nothing removes the
\* listener or tests for the end of the session.
log_response_status_Any302(response) ==
    /\ cognito_redirect_detected' =
          IF response.status = 302 THEN TRUE ELSE cognito_redirect_detected
    /\ UNCHANGED <<pc, clock, params, url, cookies, request_headers, capture_armed,
                   capture_tasks, header_size, tab, modvars, performed, caught, clickvars,
                   login, endvars>>

log_response_status(response) ==
    /\ cognito_redirect_detected' =
          IF response.status = 302 /\ response.location # ""
                /\ Contains(response.location, "amazoncognito")
          THEN TRUE
          ELSE cognito_redirect_detected
    /\ UNCHANGED <<pc, clock, params, url, cookies, request_headers, capture_armed,
                   capture_tasks, header_size, tab, modvars, performed, caught, clickvars,
                   login, endvars>>

\* The page emits "request" while the main flow runs: the listener
\* registered with page.once("request", ...) is removed and its handler, an
\* async def, is scheduled as a task with the request.  The task runs in a
\* later turn of the event loop; the main flow may go on before it does, and
\* the model takes the next request once the pending handler has run.
RequestEvent ==
    /\ SessionOpen
    /\ capture_armed
    /\ capture_tasks = << >>
    /\ capture_armed' = FALSE
    /\ \E headers \in HeaderPool : capture_tasks' = Append(capture_tasks, headers)
    /\ UNCHANGED <<pc, clock, params, url, cookies, cognito_redirect_detected,
                   request_headers, header_size, tab, modvars, performed, caught,
                   clickvars, login, endvars>>

\* capture_initial_headers / capture_request_headers: the body of the
\* handler, run in a later turn of the event loop:
\* request_headers = request.headers
capture_request_headers ==
    /\ capture_tasks # << >>
    /\ request_headers' = Head(capture_tasks)
    /\ capture_tasks' = Tail(capture_tasks)
    /\ UNCHANGED <<pc, clock, params, url, cookies, cognito_redirect_detected,
                   capture_armed, header_size, tab, modvars, performed, caught,
                   clickvars, login, endvars>>

(* ------------------------------------------------------------------ *)
(* handle_new_page: a task of its own, one action per await            *)
(* ------------------------------------------------------------------ *)

\* What no step of the task writes.
NewTabFrame ==
    UNCHANGED <<pc, clock, params, cookies, heard, header_size, modvars, performed,
                caught, clickvars, login, endvars>>

\* The handlers of the try block: new_page.close() is called (again).
CloseAfterError_GivesUp(t) == [t EXCEPT !.at = "done"]

CloseAfterError(t) == [t EXCEPT !.at = "close_after_error", !.closes = @ + 1]

\* The context has reported a page and the handler, scheduled by the emit,
\* starts (also when the main flow has ended in between): for the main page
\* it returns at once, for a new tab it waits for the tab to load.  One
\* handler runs at a time.
PageEvent ==
    /\ tab.at \in {"none", "done"}
    /\ tab.opened < site.tabs
    /\ \/ tab' = [NoTab EXCEPT !.opened = tab.opened + 1, !.at = "done", !.main = TRUE]
       \/ tab' = [NoTab EXCEPT !.opened = tab.opened + 1, !.at = "wait_load"]
    /\ UNCHANGED url
    /\ NewTabFrame

\* await new_page.wait_for_load_state('domcontentloaded', timeout=5000), then
\* new_url = new_page.url and the call of page.goto or of new_page.close.
NewTabWaitLoad ==
    /\ tab.at = "wait_load"
    /\ \/ \E new_url \in {BlankUrl, DocsUrl} :
             tab' = IF new_url # "about:blank"
                    THEN [tab EXCEPT !.loaded = TRUE, !.new_url = new_url,
                                     !.at = "goto", !.goto = new_url]
                    ELSE [tab EXCEPT !.loaded = TRUE, !.new_url = new_url,
                                     !.at = "close", !.closes = @ + 1]
       \/ tab' = CloseAfterError(tab)
    /\ UNCHANGED url
    /\ NewTabFrame

\* await page.goto(new_url): the main page is navigated.
NewTabGoto ==
    /\ tab.at = "goto"
    /\ \/ /\ \E u \in Urls : url' = u
          /\ tab' = [tab EXCEPT !.at = "close", !.closes = @ + 1]
       \/ /\ tab' = CloseAfterError(tab)
          /\ UNCHANGED url
    /\ NewTabFrame

\* await new_page.close() at the end of the try block.
NewTabClose ==
    /\ tab.at = "close"
    /\ \/ tab' = [tab EXCEPT !.at = "done"]
       \/ tab' = CloseAfterError(tab)
    /\ UNCHANGED url
    /\ NewTabFrame

\* await new_page.close() in the handler; its failure is logged.
NewTabCloseAfterError ==
    /\ tab.at = "close_after_error"
    /\ tab' = [tab EXCEPT !.at = "done"]
    /\ UNCHANGED url
    /\ NewTabFrame

\* The main flow is over while the task is at an await: asyncio.run cancels
\* it once the function has returned or raised, and CancelledError is not
\* caught by "except Exception".  Until then the task may go on.
NewTabCancelled ==
    /\ ~SessionOpen
    /\ tab.at \in {"wait_load", "goto", "close"}
    /\ tab' = [tab EXCEPT !.at = "cancelled"]
    /\ UNCHANGED url
    /\ NewTabFrame

handle_new_page ==
    \/ NewTabWaitLoad \/ NewTabGoto \/ NewTabClose \/ NewTabCloseAfterError
    \/ NewTabCancelled

(* ------------------------------------------------------------------ *)
(* Main flow before the loop                                           *)
(* ------------------------------------------------------------------ *)

\* page.goto(url): not in a try.  The server sets the session's cookies.
GotoStart ==
    /\ pc = "goto_start"
    /\ \/ /\ \E u \in Urls : url' = u
          /\ \E cs \in site.stores : cookies' = cs
          /\ pc' = "check_redirect"
          /\ UNCHANGED endvars
       \/ /\ Crash("initial_goto")
          /\ UNCHANGED <<url, cookies>>
    /\ UNCHANGED <<clock, params, heard, header_size, tab, modvars, performed, caught,
                   clickvars, login>>

\* if cognito_redirect_detected: the handler is called.
CheckRedirect ==
    /\ pc = "check_redirect"
    /\ IF cognito_redirect_detected
       THEN LoginEnter("initial")
       ELSE /\ pc' = "initial_cookies"
            /\ UNCHANGED login
    /\ UNCHANGED <<clock, params, url, cookies, heard, header_size, tab, modvars,
                   performed, caught, clickvars, endvars>>

\* initial_cookies = await context.cookies(): not in a try; then
\* request_headers = None and page.once("request", capture_initial_headers).
InitialCookies ==
    /\ pc = "initial_cookies"
    /\ \/ /\ pc' = "initial_wait"
          /\ request_headers' = NoHeaders
          /\ capture_armed' = TRUE
          /\ UNCHANGED endvars
       \/ /\ Crash("initial_cookies")
          /\ UNCHANGED <<request_headers, capture_armed>>
    /\ login' = NoLogin
    /\ UNCHANGED <<clock, params, url, cookies, cognito_redirect_detected, capture_tasks,
                   header_size, tab, modvars, performed, caught, clickvars>>

\* await page.wait_for_load_state('domcontentloaded', timeout=20000): its
\* failure goes to the alternative refresh.
InitialWait ==
    /\ pc = "initial_wait"
    /\ \/ pc' = "initial_reload"
       \/ pc' = "initial_alternative"
    /\ UNCHANGED <<clock, params, url, cookies, heard, header_size, tab, modvars,
                   performed, caught, clickvars, login, endvars>>

\* await page.reload(timeout=45000, wait_until='domcontentloaded')
InitialReload ==
    /\ pc = "initial_reload"
    /\ \/ /\ \E u \in Urls \cup {url} : url' = u
          /\ pc' = "initial_idle"
       \/ /\ pc' = "initial_alternative"
          /\ UNCHANGED url
    /\ UNCHANGED <<clock, params, cookies, heard, header_size, tab, modvars,
                   performed, caught, clickvars, login, endvars>>

\* await page.wait_for_load_state('networkidle', timeout=20000) in its own
\* try, then the header size.
InitialIdle ==
    /\ pc = "initial_idle"
    /\ MeasureHeaders
    /\ pc' = "pause"
    /\ UNCHANGED <<clock, params, url, cookies, heard, tab, modvars,
                   performed, caught, clickvars, login, endvars>>

\* await page.goto(current_url, timeout=45000, wait_until='domcontentloaded')
\* in its own try, then the header size.
InitialAlternative ==
    /\ pc = "initial_alternative"
    /\ \E u \in Urls \cup {url} : url' = u
    /\ MeasureHeaders
    /\ pc' = "pause"
    /\ UNCHANGED <<clock, params, cookies, heard, tab, modvars,
                   performed, caught, clickvars, login, endvars>>

\* await asyncio.sleep(initial_pause)
Pause ==
    /\ pc = "pause"
    /\ pc' = "pause_goto"
    /\ UNCHANGED <<clock, params, url, cookies, heard, header_size, tab, modvars,
                   performed, caught, clickvars, login, endvars>>

\* await page.goto(url); its failure ends the session by zeroing
\* browse_duration.
PauseGoto ==
    /\ pc = "pause_goto"
    /\ \/ /\ \E u \in Urls : url' = u
          /\ UNCHANGED browse_duration
       \/ /\ browse_duration' = 0
          /\ UNCHANGED url
    /\ pc' = "start_clock"
    /\ UNCHANGED <<clock, config, cookies, heard, header_size, tab, modvars,
                   performed, caught, clickvars, login, endvars>>

\* start_time = time.time() and the three last-action times.
StartClock ==
    /\ pc = "start_clock"
    /\ start_time' = now
    /\ last_refresh_time' = now
    /\ last_return_time' = now
    /\ last_cookie_mod_time' = now
    /\ pc' = "loop_test"
    /\ UNCHANGED <<now, current_time, params, url, cookies, heard, header_size, tab,
                   modvars, performed, caught, clickvars, login, endvars>>

(* ------------------------------------------------------------------ *)
(* The browsing loop: the head of a tick                               *)
(* ------------------------------------------------------------------ *)

\* while time.time() - start_time < browse_duration: current_time = time.time()
\* The model's records of the tick before (performed, caught, ops,
\* mod_status, clicked, navigated) start anew.
LoopTest ==
    /\ pc = "loop_test"
    /\ IF now - start_time < browse_duration
       THEN /\ current_time' = now
            /\ pc' = "tick_login"
       ELSE /\ pc' = "close"
            /\ UNCHANGED current_time
    /\ performed' = {} /\ caught' = {}
    /\ ops' = << >> /\ mod_status' = "none"
    /\ clicked' = "" /\ navigated' = ""
    /\ UNCHANGED <<now, start_time, last_refresh_time, last_return_time,
                   last_cookie_mod_time, params, url, cookies, heard, header_size, tab,
                   all_cookies, modified_cookies, links, link, filtered_links,
                   random_choice, login, endvars>>

\* await check_and_handle_cognito_login(): the test of page.url.
TickLogin ==
    /\ pc = "tick_login"
    /\ IF IsCognitoUrl(url)
       THEN LoginEnter("tick")
       ELSE /\ pc' = "tick_cookies"
            /\ UNCHANGED login
    /\ UNCHANGED <<clock, params, url, cookies, heard, header_size, tab, modvars,
                   performed, caught, clickvars, endvars>>

\* current_cookies = await context.cookies(): not in a try.
TickCookies ==
    /\ pc = "tick_cookies"
    /\ \/ /\ pc' = "tick_branch"
          /\ UNCHANGED endvars
       \/ Crash("tick_cookies")
    /\ login' = NoLogin
    /\ UNCHANGED <<clock, params, url, cookies, heard, header_size, tab, modvars,
                   performed, caught, clickvars>>

\* The if / elif / elif / else of the tick: the branch it enters.
ScheduledAction_ReturnFirst ==
    IF current_time - last_return_time >= return_interval THEN "return"
    ELSE IF current_time - last_cookie_mod_time >= cookie_mod_interval THEN "modify"
    ELSE IF current_time - last_refresh_time >= refresh_interval THEN "refresh"
    ELSE "click"

ScheduledAction ==
    IF current_time - last_cookie_mod_time >= cookie_mod_interval THEN "modify"
    ELSE IF current_time - last_return_time >= return_interval THEN "return"
    ELSE IF current_time - last_refresh_time >= refresh_interval THEN "refresh"
    ELSE "click"

\* The branch of the tick is over: request_headers = None and
\* page.once("request", capture_request_headers), up to the await of
\* page.wait_for_load_state('domcontentloaded').
TailStart ==
    /\ request_headers' = NoHeaders
    /\ capture_armed' = TRUE
    /\ pc' = "tick_wait"

\* elif current_time - last_return_time >= return_interval: page.goto(url) in
\* a try, then last_return_time = current_time.
ReturnToStart_StampsRefreshToo ==
    /\ pc = "tick_branch"
    /\ ScheduledAction = "return"
    /\ performed' = performed \cup {"return"}
    /\ \/ /\ \E u \in Urls : url' = u
          /\ UNCHANGED caught
       \/ /\ caught' = caught \cup {"return"}
          /\ UNCHANGED url
    /\ last_return_time' = current_time
    /\ last_refresh_time' = current_time
    /\ TailStart
    /\ UNCHANGED <<now, start_time, last_cookie_mod_time, current_time, params, cookies,
                   cognito_redirect_detected, capture_tasks, header_size, tab, modvars,
                   clickvars, login, endvars>>

ReturnToStart ==
    /\ pc = "tick_branch"
    /\ ScheduledAction = "return"
    /\ performed' = performed \cup {"return"}
    /\ \/ /\ \E u \in Urls : url' = u
          /\ UNCHANGED caught
       \/ /\ caught' = caught \cup {"return"}
          /\ UNCHANGED url
    /\ last_return_time' = current_time
    /\ TailStart
    /\ UNCHANGED <<now, start_time, last_refresh_time, last_cookie_mod_time, current_time,
                   params, cookies, cognito_redirect_detected, capture_tasks, header_size,
                   tab, modvars, clickvars, login, endvars>>

\* elif current_time - last_refresh_time >= refresh_interval: page.reload()
\* in a try, then last_refresh_time = current_time.
Refresh ==
    /\ pc = "tick_branch"
    /\ ScheduledAction = "refresh"
    /\ performed' = performed \cup {"refresh"}
    /\ \/ /\ \E u \in Urls : url' = u
          /\ UNCHANGED caught
       \/ /\ caught' = caught \cup {"refresh"}
          /\ UNCHANGED url
    /\ last_refresh_time' = current_time
    /\ TailStart
    /\ UNCHANGED <<now, start_time, last_return_time, last_cookie_mod_time, current_time,
                   params, cookies, cognito_redirect_detected, capture_tasks, header_size,
                   tab, modvars, clickvars, login, endvars>>

(* ------------------------------------------------------------------ *)
(* modify_auth_cookies, called from the first branch of the tick       *)
(* ------------------------------------------------------------------ *)

\* modified_cookie = cookie.copy(); modified_cookie['expires'] = 0
ModifiedCopy_ResetValue(cookie) == [cookie EXCEPT !.expires = 0, !.value = ""]

ModifiedCopy(cookie) == [cookie EXCEPT !.expires = 0]

\* The loop over all_cookies building modified_cookies.
ModifiedCookies(snapshot) ==
    {ModifiedCopy(cookie) : cookie \in {c \in snapshot : "expires" \in DOMAIN c}}

\* original_cookies_to_keep: the cookies whose name is not a modified name.
OriginalCookiesToKeep(snapshot, modified) ==
    LET cookie_names_to_modify == {m.name : m \in modified}
    IN  {cookie \in snapshot : cookie.name \notin cookie_names_to_modify}

\* The call has returned (or raised into the caller's handler):
\* last_cookie_mod_time = current_time, and the tick goes on.
ModifyReturns_StampsNow(status) ==
    /\ mod_status' = status
    /\ last_cookie_mod_time' = now
    /\ TailStart

ModifyReturns(status) ==
    /\ mod_status' = status
    /\ last_cookie_mod_time' = current_time
    /\ TailStart

\* if current_time - last_cookie_mod_time >= cookie_mod_interval:
\* all_cookies = await context.cookies() and the loop building modified_cookies.
ModifySnapshot ==
    /\ pc = "tick_branch"
    /\ ScheduledAction = "modify"
    /\ performed' = performed \cup {"modify"}
    /\ \/ /\ all_cookies' = cookies
          /\ modified_cookies' = ModifiedCookies(cookies)
          /\ IF ModifiedCookies(cookies) = {}
             THEN ModifyReturns("nothing_to_modify")
             ELSE /\ pc' = "mod_clear"
                  /\ UNCHANGED <<mod_status, last_cookie_mod_time, capture>>
          /\ UNCHANGED caught
       \/ /\ caught' = caught \cup {"modify"}
          /\ ModifyReturns("failed")
          /\ UNCHANGED <<all_cookies, modified_cookies>>
    /\ UNCHANGED <<now, start_time, last_refresh_time, last_return_time, current_time,
                   params, url, cookies, cognito_redirect_detected, capture_tasks,
                   header_size, tab, ops, clickvars, login, endvars>>

\* await context.clear_cookies()
ModifyClear ==
    /\ pc = "mod_clear"
    /\ ops' = Append(ops, "clear_cookies")
    /\ \/ /\ cookies' = {}
          /\ pc' = "mod_add_keep"
          /\ UNCHANGED <<mod_status, last_cookie_mod_time, caught, capture>>
       \/ /\ caught' = caught \cup {"modify"}
          /\ ModifyReturns("failed")
          /\ UNCHANGED cookies
    /\ UNCHANGED <<now, start_time, last_refresh_time, last_return_time, current_time,
                   params, url, cognito_redirect_detected, capture_tasks, header_size,
                   tab, all_cookies, modified_cookies, performed, clickvars, login,
                   endvars>>

\* if original_cookies_to_keep: await context.add_cookies(original_cookies_to_keep)
ModifyAddKept_RestoresOnFailure ==
    /\ pc = "mod_add_keep"
    /\ LET original_cookies_to_keep == OriginalCookiesToKeep(all_cookies, modified_cookies)
       IN  IF original_cookies_to_keep = {}
           THEN /\ pc' = "mod_add_modified"
                /\ UNCHANGED <<ops, cookies, mod_status, last_cookie_mod_time, caught,
                               capture>>
           ELSE /\ ops' = Append(ops, "add_kept")
                /\ \/ /\ cookies' = AddCookies(cookies, original_cookies_to_keep)
                      /\ pc' = "mod_add_modified"
                      /\ UNCHANGED <<mod_status, last_cookie_mod_time, caught, capture>>
                   \/ /\ caught' = caught \cup {"modify"}
                      /\ ModifyReturns("failed")
                      /\ cookies' = all_cookies
    /\ UNCHANGED <<now, start_time, last_refresh_time, last_return_time, current_time,
                   params, url, cognito_redirect_detected, capture_tasks, header_size,
                   tab, all_cookies, modified_cookies, performed, clickvars, login,
                   endvars>>

ModifyAddKept ==
    /\ pc = "mod_add_keep"
    /\ LET original_cookies_to_keep == OriginalCookiesToKeep(all_cookies, modified_cookies)
       IN  IF original_cookies_to_keep = {}
           THEN /\ pc' = "mod_add_modified"
                /\ UNCHANGED <<ops, cookies, mod_status, last_cookie_mod_time, caught,
                               capture>>
           ELSE /\ ops' = Append(ops, "add_kept")
                /\ \/ /\ cookies' = AddCookies(cookies, original_cookies_to_keep)
                      /\ pc' = "mod_add_modified"
                      /\ UNCHANGED <<mod_status, last_cookie_mod_time, caught, capture>>
                   \/ /\ caught' = caught \cup {"modify"}
                      /\ ModifyReturns("failed")
                      /\ UNCHANGED cookies
    /\ UNCHANGED <<now, start_time, last_refresh_time, last_return_time, current_time,
                   params, url, cognito_redirect_detected, capture_tasks, header_size,
                   tab, all_cookies, modified_cookies, performed, clickvars, login,
                   endvars>>

\* await context.add_cookies(modified_cookies)
ModifyAddModified ==
    /\ pc = "mod_add_modified"
    /\ ops' = Append(ops, "add_modified")
    /\ \/ /\ cookies' = AddCookies(cookies, modified_cookies)
          /\ pc' = "mod_reload"
          /\ UNCHANGED <<mod_status, last_cookie_mod_time, caught, capture>>
       \/ /\ caught' = caught \cup {"modify"}
          /\ ModifyReturns("failed")
          /\ UNCHANGED cookies
    /\ UNCHANGED <<now, start_time, last_refresh_time, last_return_time, current_time,
                   params, url, cognito_redirect_detected, capture_tasks, header_size,
                   tab, all_cookies, modified_cookies, performed, clickvars, login,
                   endvars>>

\* await page.reload(timeout=30000, wait_until='domcontentloaded') in its own try.
ModifyReload ==
    /\ pc = "mod_reload"
    /\ ops' = Append(ops, "reload")
    /\ \/ /\ \E u \in Urls : url' = u
          /\ UNCHANGED caught
       \/ /\ caught' = caught \cup {"modify_reload"}
          /\ UNCHANGED url
    /\ ModifyReturns("modified")
    /\ UNCHANGED <<now, start_time, last_refresh_time, last_return_time, current_time,
                   params, cookies, cognito_redirect_detected, capture_tasks, header_size,
                   tab, all_cookies, modified_cookies, performed, clickvars, login,
                   endvars>>

(* ------------------------------------------------------------------ *)
(* The click branch                                                    *)
(* ------------------------------------------------------------------ *)

bad_link_words == {"install", "uninstall", "forgot", "google"}

\* any(bad_word in href.lower() for bad_word in bad_link_words)
HasBadWord_CaseSensitive(href) == \E bad_word \in bad_link_words : Contains(href, bad_word)

HasBadWord(href) == \E bad_word \in bad_link_words : Contains(ToLower(href), bad_word)

\* if href and not any(...): the anchor goes into filtered_links
KeepLink(anchor) == anchor.has_href /\ anchor.href # "" /\ ~HasBadWord(anchor.href)

\* random.randint(0, min(9, len(filtered_links) - 1)): the values it can give.
RandomChoices_AnyLink(n) == 0..(n - 1)

RandomChoices(n) == 0..Min(MaxRandomIndex, n - 1)

\* href and not href.startswith('#') and not href.startswith('javascript:')
Clickable(href) ==
    href # "" /\ ~StartsWith(href, "#") /\ ~StartsWith(href, "javascript:")

\* full_url = href if href.startswith('http') else f"{url.rstrip('/')}/{href.lstrip('/')}"
FullUrl_Concatenated(start, href) ==
    IF StartsWith(href, "http") THEN href ELSE start \o href

FullUrl(start, href) ==
    IF StartsWith(href, "http") THEN href
    ELSE RStripSlash(start) \o "/" \o LStripSlash(href)

\* if filtered_links: random_choice = random.randint(...), and the test of
\* the href: a clickable one is clicked (the await of random_link.click()),
\* otherwise, and with no link left after filtering, the branch is over.
ChooseLink(filtered) ==
    IF filtered = << >>
    THEN /\ TailStart
         /\ UNCHANGED random_choice
    ELSE \E r \in RandomChoices(Len(filtered)) :
            /\ random_choice' = r
            /\ IF Clickable(filtered[r + 1].href)
               THEN /\ pc' = "click_link"
                    /\ UNCHANGED capture
               ELSE TailStart

\* else: links = await page.query_selector_all('a'): not in a try; with
\* links, filtered_links = [] and the loop starts at the first anchor.
ClickQuery ==
    /\ pc = "tick_branch"
    /\ ScheduledAction = "click"
    /\ performed' = performed \cup {"click"}
    /\ \/ /\ \E page_links \in site.pages :
                /\ links' = page_links
                /\ IF page_links = << >>
                   THEN /\ TailStart
                        /\ UNCHANGED <<link, filtered_links>>
                   ELSE /\ pc' = "click_filter"
                        /\ link' = 1
                        /\ filtered_links' = << >>
                        /\ UNCHANGED capture
          /\ UNCHANGED endvars
       \/ /\ Crash("query_links")
          /\ UNCHANGED <<links, link, filtered_links, capture>>
    /\ UNCHANGED <<clock, params, url, cookies, cognito_redirect_detected, capture_tasks,
                   header_size, tab, modvars, caught, random_choice, clicked, navigated,
                   login>>

\* One turn of the filter loop: href = await link.get_attribute('href'), not
\* in a try, and the append.  After the last anchor the loop is over and
\* the link to click is chosen.
ClickFilter ==
    /\ pc = "click_filter"
    /\ \/ /\ filtered_links' =
                IF KeepLink(links[link])
                THEN Append(filtered_links, [pos |-> link, href |-> links[link].href])
                ELSE filtered_links
          /\ IF link < Len(links)
             THEN /\ link' = link + 1
                  /\ pc' = "click_filter"
                  /\ UNCHANGED <<random_choice, capture>>
             ELSE /\ UNCHANGED link
                  /\ ChooseLink(filtered_links')
          /\ UNCHANGED endvars
       \/ /\ Crash("get_href")
          /\ UNCHANGED <<link, filtered_links, random_choice, capture>>
    /\ UNCHANGED <<clock, params, url, cookies, cognito_redirect_detected, capture_tasks,
                   header_size, tab, modvars, performed, caught, links, clicked,
                   navigated, login>>

\* await random_link.click(), in the try of the click.
ClickRandomLink ==
    /\ pc = "click_link"
    /\ clicked' = filtered_links[random_choice + 1].href
    /\ \/ /\ \E u \in Urls \cup {url} : url' = u
          /\ pc' = "click_settle"
          /\ UNCHANGED caught
       \/ /\ caught' = caught \cup {"click"}
          /\ pc' = "click_fallback"
          /\ UNCHANGED url
    /\ UNCHANGED <<clock, params, cookies, heard, header_size, tab, modvars, performed,
                   links, link, filtered_links, random_choice, navigated, login, endvars>>

\* await page.wait_for_load_state('networkidle'), in the try of the click.
ClickSettle ==
    /\ pc = "click_settle"
    /\ \/ /\ TailStart
          /\ UNCHANGED caught
       \/ /\ caught' = caught \cup {"click"}
          /\ pc' = "click_fallback"
          /\ UNCHANGED capture
    /\ UNCHANGED <<clock, params, url, cookies, cognito_redirect_detected, capture_tasks,
                   header_size, tab, modvars, performed, clickvars, login, endvars>>

\* except: await page.goto(full_url) in its own try.
ClickFallback ==
    /\ pc = "click_fallback"
    /\ navigated' = FullUrl(StartUrl, filtered_links[random_choice + 1].href)
    /\ \/ /\ \E u \in Urls : url' = u
          /\ UNCHANGED caught
       \/ /\ caught' = caught \cup {"fallback"}
          /\ UNCHANGED url
    /\ TailStart
    /\ UNCHANGED <<clock, params, cookies, cognito_redirect_detected, capture_tasks,
                   header_size, tab, modvars, performed, links, link, filtered_links,
                   random_choice, clicked, login, endvars>>

(* ------------------------------------------------------------------ *)
(* The tail of a tick, and the end of the session                      *)
(* ------------------------------------------------------------------ *)

\* await page.wait_for_load_state('domcontentloaded', timeout=10000) in its
\* own try.
TickWait ==
    /\ pc = "tick_wait"
    /\ \/ UNCHANGED caught
       \/ caught' = caught \cup {"tick_wait"}
    /\ pc' = "tick_reload"
    /\ UNCHANGED <<clock, params, url, cookies, heard, header_size, tab, modvars,
                   performed, clickvars, login, endvars>>

\* await page.reload(timeout=30000, wait_until='domcontentloaded'); its
\* failure is caught and the tick goes on to the header size.
TickReload ==
    /\ pc = "tick_reload"
    /\ \/ /\ \E u \in Urls \cup {url} : url' = u
          /\ pc' = "tick_idle"
          /\ UNCHANGED <<caught, header_size>>
       \/ /\ caught' = caught \cup {"tick_reload"}
          /\ MeasureHeaders
          /\ pc' = "tick_sleep"
          /\ UNCHANGED url
    /\ UNCHANGED <<clock, params, cookies, heard, tab, modvars, performed, clickvars,
                   login, endvars>>

\* await page.wait_for_load_state('networkidle', timeout=5000) in its own
\* try, then the header size and the logging of new cookies.
TickIdle ==
    /\ pc = "tick_idle"
    /\ MeasureHeaders
    /\ pc' = "tick_sleep"
    /\ UNCHANGED <<clock, params, url, cookies, heard, tab, modvars, performed, caught,
                   clickvars, login, endvars>>

\* await asyncio.sleep(10).  d: the time the tick's browser operations took.
TickSleep ==
    /\ pc = "tick_sleep"
    /\ \E d \in {0, OpDelay} : now' = now + TickSleepSeconds + d
    /\ pc' = "loop_test"
    /\ UNCHANGED <<timers, params, url, cookies, heard, header_size, tab, modvars,
                   performed, caught, clickvars, login, endvars>>

\* await browser.close(), then the session-complete message.
Close ==
    /\ pc = "close"
    /\ \/ /\ browser_closed' = TRUE
          /\ complete_logged' = TRUE
          /\ pc' = "done"
          /\ UNCHANGED crash_site
       \/ Crash("close")
    /\ UNCHANGED <<clock, params, url, cookies, heard, header_size, tab, modvars,
                   performed, caught, clickvars, login>>

(* ------------------------------------------------------------------ *)
(* The system                                                          *)
(* ------------------------------------------------------------------ *)

MainStep ==
    \/ GotoStart \/ CheckRedirect \/ InitialCookies
    \/ InitialWait \/ InitialReload \/ InitialIdle \/ InitialAlternative
    \/ Pause \/ PauseGoto \/ StartClock \/ LoopTest \/ TickLogin \/ TickCookies
    \/ handle_cognito_login
    \/ ModifySnapshot \/ ModifyClear \/ ModifyAddKept \/ ModifyAddModified
    \/ ModifyReload \/ ReturnToStart \/ Refresh
    \/ ClickQuery \/ ClickFilter \/ ClickRandomLink \/ ClickSettle \/ ClickFallback
    \/ TickWait \/ TickReload \/ TickIdle \/ TickSleep \/ Close

\* The handler of some response the page has reported runs.
ResponseEvent == \E response \in Responses : log_response_status(response)

\* The steps of the listeners.  Their bodies are tasks of the event loop:
\* they run between the steps of the main flow and after its end.
ListenerStep ==
    ResponseEvent \/ RequestEvent \/ capture_request_headers \/ PageEvent \/ handle_new_page

Next == MainStep \/ ListenerStep

Spec == Init /\ [][Next]_vars

(* ------------------------------------------------------------------ *)
(* calculate_header_size on its own                                    *)
(* ------------------------------------------------------------------ *)

\* Most entries of a header mapping the function is applied to.
MaxHeaders == 3

\* Names and values with characters of one, two, three and four bytes:
\* "x-\u00e9" and "\u20ac\U0001f600".
HeaderNames == {Text("host"), Text("cookie"), <<120, 45, 233>>}
HeaderValues == {<< >>, Text("sid=v1"), <<8364, 128512>>}
\* The dicts of at most MaxHeaders entries: no name twice.
HeaderDicts ==
    UNION { { h \in [1..n -> {Header(k, v) : k \in HeaderNames, v \in HeaderValues}] :
                \A i, j \in 1..n : i # j => h[i].name # h[j].name } : n \in 0..MaxHeaders }
\* The same dict with its entries inserted in another order.
Reorderings(h) ==
    { g \in [1..Len(h) -> {h[i] : i \in 1..Len(h)}] :
        {g[i] : i \in 1..Len(h)} = {h[i] : i \in 1..Len(h)} }

HeaderSizeInit ==
    /\ pc = "calculate_header_size"
    /\ request_headers \in HeaderDicts
    /\ header_size = NoSize
    /\ now = 0
    /\ COGNITO_USERNAME = "" /\ COGNITO_PASSWORD = ""
    /\ browse_duration = 0
    /\ refresh_interval = 0 /\ return_interval = 0 /\ cookie_mod_interval = 0
    /\ start_time = 0 /\ last_refresh_time = 0 /\ last_return_time = 0
    /\ last_cookie_mod_time = 0 /\ current_time = 0
    /\ url = BlankUrl
    /\ cookies = {}
    /\ cognito_redirect_detected = FALSE
    /\ capture_armed = FALSE /\ capture_tasks = << >>
    /\ tab = NoTab
    /\ site = BaseSite
    /\ all_cookies = {} /\ modified_cookies = {} /\ ops = << >> /\ mod_status = "none"
    /\ performed = {} /\ caught = {}
    /\ links = << >> /\ link = 0 /\ filtered_links = << >> /\ random_choice = NoChoice
    /\ clicked = "" /\ navigated = ""
    /\ login = NoLogin
    /\ crash_site = "" /\ browser_closed = FALSE /\ complete_logged = FALSE

\* header_size = calculate_header_size(request_headers)
HeaderSizeCall ==
    /\ pc = "calculate_header_size"
    /\ header_size' = calculate_header_size(request_headers)
    /\ pc' = "header_size_returned"
    /\ UNCHANGED <<request_headers, clock, params, url, cookies,
                   cognito_redirect_detected, capture_tasks, capture_armed, tab, modvars,
                   performed, caught, clickvars, login, endvars>>

\* A second call, on the same mapping built in another order.
HeaderSizeCallAgain ==
    /\ pc = "header_size_returned"
    /\ \E h \in Reorderings(request_headers) :
          /\ request_headers' = h
          /\ header_size' = calculate_header_size(h)
    /\ UNCHANGED <<pc, clock, params, url, cookies, cognito_redirect_detected,
                   capture_tasks, capture_armed, tab, modvars, performed, caught,
                   clickvars, login, endvars>>

HeaderSizeNext == HeaderSizeCall \/ HeaderSizeCallAgain

HeaderSizeSpec == HeaderSizeInit /\ [][HeaderSizeNext]_vars

(* ------------------------------------------------------------------ *)
(* Claims                                                              *)
(* ------------------------------------------------------------------ *)

CookieModDue == current_time - last_cookie_mod_time >= cookie_mod_interval
ReturnDue == current_time - last_return_time >= return_interval
RefreshDue == current_time - last_refresh_time >= refresh_interval

\* C1: on every tick exactly one of the four action categories is performed:
\* modify-cookies when its interval has elapsed, else return when its interval
\* has elapsed, else refresh when its interval has elapsed, else the random
\* click; no later step of the tick adds a second category.
C1_OneActionByPriority ==
    [][ IF pc = "tick_branch" /\ pc' # pc
        THEN /\ Cardinality(performed') = 1
             /\ ("modify" \in performed') <=> CookieModDue
             /\ ("return" \in performed') <=> (~CookieModDue /\ ReturnDue)
             /\ ("refresh" \in performed') <=> (~CookieModDue /\ ~ReturnDue /\ RefreshDue)
             /\ ("click" \in performed') <=> (~CookieModDue /\ ~ReturnDue /\ ~RefreshDue)
        ELSE IF pc = "loop_test" /\ pc' # pc
        THEN performed' = {}
        ELSE performed' = performed ]_vars

\* C1 witness: cookie modification was chosen on a tick on which the return
\* and the refresh intervals had elapsed too.
C1_Witness ==
    /\ pc = "mod_clear"
    /\ performed = {"modify"}
    /\ ReturnDue /\ RefreshDue

\* The places inside the four branches of the tick where an exception is not
\* caught.
BranchCrashSites == {"query_links", "get_href"}
\* The places inside the loop where an exception is not caught.
LoopCrashSites == BranchCrashSites \cup {"tick_cookies"}

\* C2: a failure of a browser operation inside any of the four scheduler
\* branches (link enumeration and href reading included) is swallowed: it
\* never makes the function exit.
C2_BranchFailuresSwallowed ==
    ~(pc = "crashed" /\ crash_site \in BranchCrashSites)

\* C3: no failure of a browser operation anywhere in the session escapes
\* browse_and_track_cookies as an exception.
C3_NoFailureEscapes == pc # "crashed"

\* C4: after modify_auth_cookies has completed without error, every cookie of
\* the snapshot that carried no expiry field is in the context unchanged, and
\* the only cookies that differ from the snapshot are rewritten copies of
\* cookies that carried one.
C4_CookiesWithoutExpiryKept ==
    (pc = "tick_wait" /\ mod_status = "modified" /\ caught = {}) =>
        /\ \A c \in all_cookies : "expires" \notin DOMAIN c => c \in cookies
        /\ \A c \in cookies \ all_cookies : \E o \in all_cookies :
              "expires" \in DOMAIN o /\ CookieKey(o) = CookieKey(c)

\* What modify_auth_cookies calls when nothing fails, with and without
\* cookies to keep.
ModifyCalls == <<"clear_cookies", "add_kept", "add_modified", "reload">>
ModifyCallsNoneKept == <<"clear_cookies", "add_modified", "reload">>
IsPrefix(p, q) == Len(p) <= Len(q) /\ SubSeq(q, 1, Len(p)) = p

\* C5: when a cookie carries an expiry field, modify_auth_cookies clears the
\* context, then re-adds the kept cookies, then adds the copies, then reloads,
\* never in another order; each copy has expiry 0 and every other field of
\* its original, and there is one copy per cookie that carried an expiry.
C5_ModifyOrder ==
    /\ IsPrefix(ops, ModifyCalls) \/ IsPrefix(ops, ModifyCallsNoneKept)
    /\ pc = "mod_add_keep" => cookies = {}
    /\ pc = "mod_reload" => modified_cookies \subseteq cookies
    /\ (pc = "tick_wait" /\ mod_status = "modified") =>
          ops \in {ModifyCalls, ModifyCallsNoneKept}
    /\ \A m \in modified_cookies : \E c \in all_cookies :
          /\ "expires" \in DOMAIN c
          /\ DOMAIN m = DOMAIN c
          /\ m.expires = 0
          /\ \A f \in DOMAIN c \ {"expires"} : m[f] = c[f]
    /\ pc \in {"mod_clear", "mod_add_keep", "mod_add_modified", "mod_reload"} =>
          /\ modified_cookies # {}
          /\ \A c \in all_cookies : "expires" \in DOMAIN c =>
                \E m \in modified_cookies : CookieKey(m) = CookieKey(c)

\* C5 witness: all four calls were made, in order, and the context holds a
\* zero-expiry copy.
C5_Witness ==
    /\ pc = "tick_wait"
    /\ mod_status = "modified"
    /\ ops = ModifyCalls
    /\ \E m \in cookies : "expires" \in DOMAIN m /\ m.expires = 0 /\ m.value = "v1"

\* The loop has been left, by its test or by an exception.
LoopLeft ==
    \/ pc \in {"close", "done"}
    \/ pc = "crashed" /\ crash_site \in LoopCrashSites \cup {"close"}

\* C6: the loop is left only when the elapsed time has reached the browse
\* duration, and once it has been left and the function is over, the browser
\* has been closed and the session-complete message logged.
C6_LoopEndsOnlyByDuration ==
    /\ LoopLeft => now - start_time >= browse_duration
    /\ pc \in {"done", "crashed"} /\ LoopLeft => browser_closed /\ complete_logged

\* The variables the program holds (tab is the model's record of the new-tab
\* task), without those named.
AllButHeaders ==
    <<pc, clock, params, url, cookies, cognito_redirect_detected, header_size,
      modvars, performed, caught, clickvars, login, endvars>>
AllButFlag ==
    <<pc, clock, params, url, cookies, capture, capture_tasks, header_size,
      modvars, performed, caught, clickvars, login, endvars>>
AllButUrl ==
    <<pc, clock, params, cookies, heard, header_size, modvars, performed, caught,
      clickvars, login, endvars>>

\* C7 as stated: a listener writes nothing but the captured request headers
\* (and the one-shot registration that goes with them).
C7_ListenersWriteOnlyHeaders ==
    [][ ListenerStep => UNCHANGED AllButHeaders ]_vars

\* C7, amended: besides the captured headers the listeners write the flag
\* cognito_redirect_detected (the response logger, only ever to TRUE and only
\* on a 302 whose location contains "amazoncognito") and the main page's URL
\* (the new-tab handler, with its page.goto); they write nothing else.
C7_ListenersWriteFlagAndPage ==
    [][ /\ UNCHANGED AllButFlag \/ ~ResponseEvent
        /\ cognito_redirect_detected' # cognito_redirect_detected =>
              \A r \in Responses :
                  log_response_status(r)
                      => /\ cognito_redirect_detected'
                         /\ r.status = 302
                         /\ \E i \in 1..Len(r.location) :
                               i + 12 <= Len(r.location)
                                   /\ SubSeq(r.location, i, i + 12) = "amazoncognito"
        /\ UNCHANGED AllButHeaders \/ ~(RequestEvent \/ capture_request_headers)
        /\ UNCHANGED AllButUrl \/ ~(PageEvent \/ handle_new_page)
        /\ url' # url /\ (PageEvent \/ handle_new_page) => tab.at = "goto" ]_vars

\* C7 witness: the main flow has run the login handler before the loop, which
\* it does only when it reads the flag the response logger set, and has
\* reset the flag.
C7_Witness ==
    /\ pc = "initial_cookies"
    /\ login.site = "initial"
    /\ login.path = "no_credentials"
    /\ ~cognito_redirect_detected

\* No element matching one of the selectors is visible.
NoneVisible(dom, selectors) ==
    \A sel \in selectors : \A i \in 1..Len(dom[sel]) : ~dom[sel][i]
CredentialsPresent == COGNITO_USERNAME # "" /\ COGNITO_PASSWORD # ""
\* The form the handler has queried lacks a visible username, password or
\* submit element.
ElementMissing(dom) ==
    /\ dom # NoDom
    /\ \/ NoneVisible(dom, {SelUser1, SelUser2})
       \/ NoneVisible(dom, {SelPass1, SelPass2})
       \/ NoneVisible(dom, {SelSubmit1, SelSubmit2})
\* The awaits of the handler.
LoginPcs ==
    {"login_wait_load", "login_settle", "login_query", "login_visible", "login_click",
     "login_clear", "login_fill", "login_pause", "login_wait_function",
     "login_wait_loaded", "login_error_query", "login_error_text", "login_grace"}
\* The step with which the handler returns to its call site.
LoginReturnStep == pc \in LoginPcs /\ pc' \notin LoginPcs
\* The handler's last act was the 60-second sleep after a prompt.
PromptedAndWaited ==
    /\ pc = "login_grace"
    /\ login'.prompted
    /\ login'.slept >= LoginGrace
HasMarker(current_url) ==
    \E i \in 1..Len(current_url) : \E w \in {"awscognito", "amazoncognito"} :
        i + Len(w) - 1 <= Len(current_url) /\ SubSeq(current_url, i, i + Len(w) - 1) = w

\* C8 as stated: whenever scripted login cannot complete (no credentials, an
\* element missing, a timeout waiting for the page or for the navigation
\* after the submit) the handler prompts and sleeps the 60 seconds.
C8_EveryFailedLoginPrompts ==
    [][ LoginReturnStep =>
          ((~CredentialsPresent \/ ElementMissing(login'.dom)
              \/ login'.failures \cap {"login_page", "url_change", "load"} # {})
                => PromptedAndWaited) ]_vars

\* C8, amended: in the loop the handler runs exactly when the URL contains the
\* marker; it prompts and sleeps the 60 seconds when the page does not load,
\* credentials are absent, the page is closed, an element is missing or a
\* form call raises; a timeout after the submit alone is only logged: no
\* prompt, no grace period.  The time the handler sleeps passes on the
\* tick's clock.
C8_FailedLoginPromptsExceptAfterSubmit ==
    [][ /\ (pc = "tick_login" /\ pc' # pc) => ((pc' = "login_wait_load") <=> HasMarker(url))
        /\ LoginReturnStep =>
              /\ (~CredentialsPresent \/ ElementMissing(login'.dom)
                     \/ login'.failures \cap {"login_page", "closed", "call"} # {})
                    => PromptedAndWaited
              /\ (login'.failures # {} /\ login'.failures \subseteq {"url_change", "load"})
                    => (~login'.prompted /\ login'.slept = 3 * ShortPause)
              /\ login'.site = "tick" => now' - current_time = login'.slept ]_vars

\* C8 witness: on a tick at the identity provider's URL the handler found no
\* visible submit button, prompted and slept the grace period.
C8_Witness ==
    /\ pc = "tick_cookies"
    /\ login.path = "no_submit"
    /\ login.dom = DomNoSubmit
    /\ login.prompted
    /\ login.slept = 3 * ShortPause + LoginGrace
    /\ now - current_time = login.slept

\* href.lower() contains w, character by character.
ContainsIgnoringCase(s, w) ==
    \E i \in 1..(Len(s) - Len(w) + 1) :
        \A j \in 1..Len(w) : LowerChar(CharAt(s, i + j - 1)) = CharAt(w, j)
Blocklisted(href) ==
    \E w \in {"install", "uninstall", "forgot", "google"} : ContainsIgnoringCase(href, w)
Eligible(anchor) == anchor.has_href /\ anchor.href # "" /\ ~Blocklisted(anchor.href)
\* The filter loop is running or has run on this tick, and the anchors it
\* has been through.
Filtered ==
    \/ pc \in {"click_filter", "click_link", "click_settle", "click_fallback"}
    \/ pc = "tick_wait" /\ "click" \in performed /\ links # << >>
Scanned == IF pc = "click_filter" THEN link - 1 ELSE Len(links)

\* C9: the candidate list holds exactly the anchors with a non-empty href
\* that contains no blocklisted word in any letter case, in page order (of
\* the anchors read so far, while the loop runs), and what is clicked or
\* navigated to is one of them.
C9_FilteredLinks ==
    Filtered =>
        /\ \A k \in 1..Len(filtered_links) :
              /\ filtered_links[k].pos \in 1..Scanned
              /\ Eligible(links[filtered_links[k].pos])
              /\ links[filtered_links[k].pos].href = filtered_links[k].href
        /\ \A k \in 1..(Len(filtered_links) - 1) :
              filtered_links[k].pos < filtered_links[k + 1].pos
        /\ \A i \in 1..Scanned :
              Eligible(links[i]) => \E k \in 1..Len(filtered_links) : filtered_links[k].pos = i
        /\ clicked # "" =>
              /\ ~Blocklisted(clicked)
              /\ \E k \in 1..Len(filtered_links) : filtered_links[k].href = clicked
        /\ navigated # "" => clicked = filtered_links[random_choice + 1].href

\* C9 witness: a page with blocklisted hrefs in upper and mixed case was
\* filtered down to its four eligible anchors and one of them clicked.
C9_Witness ==
    /\ pc = "tick_wait"
    /\ links = PageMixed
    /\ Len(filtered_links) = 4
    /\ clicked = "https://app.example/about"

\* The click branch has chosen among a non-empty candidate list, and the
\* click, if there was one, has returned or raised.
Chosen ==
    /\ pc \in {"click_settle", "click_fallback", "tick_wait"}
    /\ "click" \in performed
    /\ links # << >>
    /\ filtered_links # << >>

\* C10 as stated: with a non-empty candidate list one link is clicked, at an
\* index in 0..min(9, n-1).
C10_OneLinkClicked ==
    Chosen =>
        /\ random_choice \in 0..9
        /\ random_choice <= Len(filtered_links) - 1
        /\ clicked = filtered_links[random_choice + 1].href

\* C10, amended: one link is chosen, at an index in 0..min(9, n-1); it is
\* clicked unless its href starts with "#" or "javascript:", in which case
\* nothing is clicked or navigated to on that tick.
C10_OneLinkChosen ==
    /\ Chosen =>
          /\ random_choice \in 0..9
          /\ random_choice <= Len(filtered_links) - 1
          /\ LET href == filtered_links[random_choice + 1].href
             IN  IF StartsWith(href, "#") \/ StartsWith(href, "javascript:")
                 THEN clicked = "" /\ navigated = ""
                 ELSE clicked = href
    /\ pc = "click_link" =>
          /\ random_choice \in 0..9
          /\ random_choice <= Len(filtered_links) - 1
          /\ LET href == filtered_links[random_choice + 1].href
             IN  ~(StartsWith(href, "#") \/ StartsWith(href, "javascript:"))
          /\ clicked = "" /\ navigated = ""

\* C10 witness: of more than ten candidates the tenth (index 9) was chosen
\* and clicked.
C10_Witness ==
    /\ pc = "tick_wait"
    /\ Len(filtered_links) > 10
    /\ random_choice = 9
    /\ clicked = filtered_links[10].href

\* s without its leading / trailing slashes.
WithoutLeadingSlashes(s) ==
    LET k == CHOOSE k \in 0..Len(s) :
                 /\ \A i \in 1..k : CharAt(s, i) = "/"
                 /\ (k = Len(s) \/ CharAt(s, k + 1) # "/")
    IN  SubSeq(s, k + 1, Len(s))
WithoutTrailingSlashes(s) ==
    LET k == CHOOSE k \in 0..Len(s) :
                 /\ \A i \in (k + 1)..Len(s) : CharAt(s, i) = "/"
                 /\ (k = 0 \/ CharAt(s, k) # "/")
    IN  SubSeq(s, 1, k)
\* Where the fallback goes for an href: the href itself when it starts with
\* http, otherwise the start URL and the href joined by one slash.
FallbackTarget(href) ==
    IF Len(href) >= 4 /\ SubSeq(href, 1, 4) = "http" THEN href
    ELSE WithoutTrailingSlashes(StartUrl) \o "/" \o WithoutLeadingSlashes(href)

\* C11: a failed click (or a failed wait after it) is logged and followed by
\* one direct navigation, to the href itself when it starts with http and
\* otherwise to the start URL joined with the href; nothing else navigates
\* directly to a link; a failure of that navigation is logged and the tick
\* goes on to its reload.
C11_FallbackNavigation ==
    [][ /\ (pc = "click_link" /\ pc' # pc) =>
              /\ navigated' = ""
              /\ (pc' = "click_fallback") <=> ("click" \in caught' /\ clicked' # "")
              /\ (pc' = "click_settle") => (caught' = caught /\ clicked' # "")
              /\ pc' \in {"click_settle", "click_fallback"}
        /\ (pc = "click_settle" /\ pc' # pc) =>
              /\ navigated' = ""
              /\ (pc' = "click_fallback") <=> ("click" \in caught')
              /\ pc' \in {"click_fallback", "tick_wait"}
        /\ (pc = "click_fallback" /\ pc' # pc) =>
              /\ navigated = ""
              /\ navigated' = FallbackTarget(clicked)
              /\ clicked = filtered_links[random_choice + 1].href
              /\ pc' = "tick_wait"
              /\ crash_site' = ""
              /\ caught' \ caught \subseteq {"fallback"}
        /\ (navigated' # navigated /\ navigated' # "") => pc = "click_fallback" ]_vars

\* C11 witness: the click on the relative link /docs failed, the fallback
\* went to the start URL joined with it, failed too, and the tick went on.
C11_Witness ==
    /\ pc = "tick_wait"
    /\ clicked = "/docs"
    /\ navigated = "https://app.example/docs"
    /\ caught = {"click", "fallback"}

\* The bytes of a text in UTF-8: one per character, and one more for each
\* character from U+0080, from U+0800 and from U+10000 on.
ByteLength(text) ==
    Len(text) + Cardinality({i \in 1..Len(text) : text[i] >= 128})
              + Cardinality({i \in 1..Len(text) : text[i] >= 2048})
              + Cardinality({i \in 1..Len(text) : text[i] >= 65536})
\* The sum over the entries at the positions S of name + value + 4.
RECURSIVE EntriesSum(_, _)
EntriesSum(h, S) ==
    IF S = {} THEN 0
    ELSE LET i == CHOOSE i \in S : TRUE
         IN  ByteLength(h[i].name) + ByteLength(h[i].value) + 4 + EntriesSum(h, S \ {i})

\* C12: calculate_header_size returns 0 for an empty or missing mapping and
\* otherwise the sum over the entries of (bytes of the name + bytes of the
\* value + 4) plus 2; a second call on the same mapping, whatever the order
\* of its entries, returns the same value.
C12_HeaderSizeDeterministic ==
    [][ pc' = "header_size_returned" =>
          /\ Len(request_headers') = 0 => header_size' = 0
          /\ Len(request_headers') > 0 =>
                header_size' = EntriesSum(request_headers', 1..Len(request_headers')) + 2
          /\ pc = "header_size_returned" => header_size' = header_size ]_vars

\* C12 witness: a mapping of two entries, one with characters of two, three
\* and four bytes, measured twice in different orders: 31 bytes.
C12_Witness ==
    /\ pc = "header_size_returned"
    /\ Len(request_headers) = 2
    /\ request_headers[1] = Header(<<120, 45, 233>>, <<8364, 128512>>)
    /\ request_headers[2] = Header(Text("host"), Text("sid=v1"))
    /\ header_size = 31

\* x is the first visible element: visible, with no visible element before
\* it under its own selector or under an earlier selector of the list.
IsFirstVisible(x, selectors, dom) ==
    \E k \in 1..Len(selectors) :
        /\ x.sel = selectors[k]
        /\ x.idx \in 1..Len(dom[x.sel])
        /\ dom[x.sel][x.idx]
        /\ \A i \in 1..(x.idx - 1) : ~dom[x.sel][i]
        /\ \A m \in 1..(k - 1) : \A i \in 1..Len(dom[selectors[m]]) : ~dom[selectors[m]][i]
AnyVisible(selectors, dom) ==
    \E k \in 1..Len(selectors) : \E i \in 1..Len(dom[selectors[k]]) : dom[selectors[k]][i]

\* C13: find_visible_element returns the first visible element, in the order
\* of the selector list and then of the page, and nothing only when no
\* element of any selector is visible; the elements the username, password
\* and submit steps click are the ones it returned.
C13_FirstVisibleElement ==
    login.site # "none" =>
        /\ Len(login.acted) <= 3
        /\ \A s \in 1..Len(login.acted) :
              IsFirstVisible(login.acted[s], StepSelectors[s], login.dom)
        /\ pc = "login_click" =>
              /\ Len(login.acted) = login.step - 1
              /\ IsFirstVisible([sel |-> StepSelectors[login.step][login.sel],
                                 idx |-> login.idx],
                                StepSelectors[login.step], login.dom)
        /\ \A s \in 1..3 :
              login.path = NotFoundPath[s] =>
                  /\ ~AnyVisible(StepSelectors[s], login.dom)
                  /\ Len(login.acted) = s - 1
        /\ login.path \in {"completed", "completed_after_timeout", "login_failed",
                            "url_changed"} => Len(login.acted) = 3

\* C13 witness: the username came from the second selector, the password
\* from the second selector past hidden matches of the first, the submit
\* button past an invisible duplicate, and the form was submitted.
C13_Witness ==
    /\ pc = "tick_cookies"
    /\ login.path = "completed"
    /\ login.dom = DomSecondSelector
    /\ login.acted = << [sel |-> SelUser2, idx |-> 1], [sel |-> SelPass2, idx |-> 1],
                        [sel |-> SelSubmit2, idx |-> 2] >>

\* What the handler does while it runs: for the main page nothing; for a new
\* tab page.goto, with the tab's URL, exactly when the tab loaded and its URL
\* is not about:blank, and only while that call is awaited does it move the
\* main page.
NewTabCalls ==
    /\ tab'.main => (tab' = [NoTab EXCEPT !.opened = tab'.opened, !.at = "done",
                                         !.main = TRUE] /\ url' = url)
    /\ tab'.at \notin {"none", "wait_load"} /\ ~tab'.main =>
          /\ (tab'.goto # "") <=> (tab'.loaded /\ tab'.new_url # "about:blank")
          /\ tab'.goto \in {"", tab'.new_url}
    /\ tab'.at = "wait_load" => (tab'.closes = 0 /\ tab'.goto = "")
    /\ url' # url => (tab.at = "goto" /\ tab'.closes = 1)
    /\ tab'.closes \in 0..2

\* C14 as stated: for a new page that is not the main page the handler
\* calls close() on it at least once on every path, however the handler ends.
C14_NewTabClosedOnEveryPath ==
    [][ (PageEvent \/ handle_new_page) =>
          /\ NewTabCalls
          /\ (tab'.at \in {"done", "cancelled"} /\ ~tab'.main) => tab'.closes >= 1 ]_vars

\* C14, amended: for a new page that is not the main page the handler calls
\* close() on it at least once on every path on which it runs to its end
\* (normal completion, a failed wait for load, a failed redirect, a failed
\* close); a handler still at one of its awaits after the session has ended
\* goes on or is cancelled there, and once cancelled makes no further call; page.goto is called, with the new
\* tab's URL, exactly when the tab loaded and its URL is not about:blank;
\* for the main page itself the handler calls neither.
C14_NewTabClosedUnlessCancelled ==
    [][ (PageEvent \/ handle_new_page) =>
          /\ NewTabCalls
          /\ (tab'.at = "done" /\ ~tab'.main) => tab'.closes >= 1
          /\ tab'.at = "cancelled" =>
                (~SessionOpen /\ tab'.closes = tab.closes /\ tab'.goto = tab.goto
                    /\ url' = url) ]_vars

\* C14 witness: a new tab loaded at the documentation URL, the redirect of
\* the main page to it failed, and the tab was closed all the same.
C14_Witness ==
    /\ tab.at = "done"
    /\ ~tab.main /\ tab.loaded
    /\ tab.goto = DocsUrl
    /\ tab.closes = 1
    /\ url = BlankUrl
    /\ pc = "goto_start"

\* C14 witness of the cancellation: the session ended while the handler was
\* waiting for the new tab to load, and the tab was left to the browser.
C14_WitnessCancelled ==
    /\ tab.at = "cancelled"
    /\ ~tab.loaded
    /\ tab.closes = 0
    /\ pc = "done"

\* The pcs inside the four branches of the tick.
BranchPcs ==
    {"tick_branch", "mod_clear", "mod_add_keep", "mod_add_modified", "mod_reload",
     "click_filter", "click_link", "click_settle", "click_fallback"}
\* The step with which the tick's branch is over.
BranchEnds == pc \in BranchPcs /\ pc' \notin BranchPcs

\* C15: once the clock is started, the start time never changes and
\* current_time changes only at the head of a tick, to the time it is then;
\* each of the three last-action times changes only at the end of its own
\* action's branch, and is then current_time, whether or not the action
\* failed; a click tick changes none of them.
C15_TimestampFrame ==
    [][ pc # "start_clock" =>
          /\ start_time' = start_time
          /\ current_time' # current_time => (pc = "loop_test" /\ current_time' = now)
          /\ last_cookie_mod_time' # last_cookie_mod_time =>
                (BranchEnds /\ performed' = {"modify"})
          /\ last_return_time' # last_return_time =>
                (BranchEnds /\ performed' = {"return"})
          /\ last_refresh_time' # last_refresh_time =>
                (BranchEnds /\ performed' = {"refresh"})
          /\ (BranchEnds /\ pc' # "crashed") =>
                /\ "modify" \in performed' => last_cookie_mod_time' = current_time
                /\ "return" \in performed' => last_return_time' = current_time
                /\ "refresh" \in performed' => last_refresh_time' = current_time
                /\ "click" \in performed' =>
                      UNCHANGED <<last_cookie_mod_time, last_return_time,
                                  last_refresh_time>> ]_vars

\* C15 witness: a cookie modification that failed, on a tick whose login
\* handling took time, has set the last-cookie-mod time to the time captured
\* at the head of the tick and left the other two at earlier values.
C15_Witness ==
    /\ pc = "tick_wait"
    /\ performed = {"modify"}
    /\ "modify" \in caught
    /\ now > current_time
    /\ last_cookie_mod_time = current_time
    /\ last_return_time < current_time
    /\ last_refresh_time < current_time
    /\ start_time < last_return_time

\* The step in which the scheduler enters a branch.
SchedulerStep == pc = "tick_branch" /\ pc' # pc
\* An action that is due stays due until its own branch has ended, and the
\* scheduler performs it on the first tick on which nothing of higher
\* priority is due.
DeferredStaysDue ==
    /\ (pc # "start_clock" /\ ReturnDue /\ ~(BranchEnds /\ performed' = {"return"}))
          => ReturnDue'
    /\ (pc # "start_clock" /\ RefreshDue /\ ~(BranchEnds /\ performed' = {"refresh"}))
          => RefreshDue'
    /\ SchedulerStep =>
          /\ (ReturnDue /\ ~CookieModDue) => performed' = {"return"}
          /\ (RefreshDue /\ ~CookieModDue /\ ~ReturnDue) => performed' = {"refresh"}
\* The cookie-mod interval is not longer than the sleep between two ticks.
CookieModEveryTick == cookie_mod_interval <= TickSleepSeconds

\* C16 as stated: a deferred action stays due and is performed on the first
\* tick with nothing of higher priority due; and with a cookie-mod interval
\* not longer than the time between ticks, return, refresh and click are
\* never performed.
C16_LowerPriorityNeverPerformed ==
    [][ /\ DeferredStaysDue
        /\ (SchedulerStep /\ CookieModEveryTick) =>
              performed' \cap {"return", "refresh", "click"} = {} ]_vars

\* C16, amended: the same, except that the first tick of the session, taken
\* when no time has passed since the clock was started, performs one of the
\* other actions (the cookie-mod interval being positive); on every later
\* tick only modify-cookies is performed.
C16_LowerPriorityStarvedAfterFirstTick ==
    [][ /\ DeferredStaysDue
        /\ (SchedulerStep /\ CookieModEveryTick) =>
              IF current_time = start_time /\ cookie_mod_interval > 0
              THEN "modify" \notin performed'
              ELSE performed' = {"modify"} ]_vars

\* C16 witness: on the third tick the return, due since the second tick on
\* which cookies were modified, is performed, the cookie-mod interval not
\* having elapsed again.
C16_Witness ==
    /\ pc = "tick_wait"
    /\ performed = {"return"}
    /\ last_cookie_mod_time > start_time
    /\ current_time - last_cookie_mod_time < cookie_mod_interval
    /\ current_time - start_time >= 2 * return_interval

\* C16 witness of the starvation: with the cookie-mod interval equal to the
\* sleep, the third tick modifies cookies again while return and refresh
\* have been due for two ticks.
C16_WitnessStarved ==
    /\ pc = "tick_wait"
    /\ performed = {"modify"}
    /\ CookieModEveryTick
    /\ last_cookie_mod_time > start_time
    /\ current_time - last_return_time >= 2 * return_interval
    /\ current_time - last_refresh_time >= 2 * refresh_interval

\* modify_auth_cookies has returned on this tick.
ModifyOver == pc = "tick_wait" /\ performed = {"modify"}
\* The cookies of the snapshot that carry an expiry field.
Expiring == {c \in all_cookies : "expires" \in DOMAIN c}
\* The cookies of the snapshot that are re-added as they were.
ReAdded == {c \in all_cookies : \A x \in Expiring : x.name # c.name}
\* The clearing succeeded and the last call made, an add_cookies, failed.
AddFailed ==
    /\ mod_status = "failed"
    /\ Len(ops) >= 2
    /\ ops[1] = "clear_cookies"

\* C17: when the clearing succeeded and an add_cookies call failed, the
\* failure is caught and logged, the context holds only what was added
\* before the failure (nothing when the first add failed), not the original
\* cookies, and no reload was issued; when no cookie of the snapshot carries
\* an expiry field nothing is cleared and nothing reloaded.
C17_ModifyFailurePaths ==
    ModifyOver =>
        /\ AddFailed =>
              /\ "modify" \in caught
              /\ \A i \in 1..Len(ops) : ops[i] # "reload"
              /\ ops[Len(ops)] \in {"add_kept", "add_modified"}
              /\ cookies = IF ops[Len(ops)] = "add_modified" THEN ReAdded ELSE {}
              /\ cookies # all_cookies
              /\ cookies \cap Expiring = {}
        /\ mod_status = "nothing_to_modify" =>
              /\ ops = << >>
              /\ cookies = all_cookies
              /\ caught = {}
        /\ (Expiring = {} /\ mod_status # "failed") => mod_status = "nothing_to_modify"

\* C17 witness: of three cookies two were named like the one with an expiry;
\* the clearing and the first add succeeded, the add of the copy failed, and
\* the context is left with the one cookie re-added.
C17_Witness ==
    /\ ModifyOver
    /\ all_cookies = CookiePool
    /\ ops = <<"clear_cookies", "add_kept", "add_modified">>
    /\ mod_status = "failed"
    /\ cookies = {CookieC}

\* C17 witness of the other case: no cookie carried an expiry field and the
\* context was left alone.
C17_WitnessNothingToModify ==
    /\ ModifyOver
    /\ mod_status = "nothing_to_modify"
    /\ cookies = {CookieB, CookieC}

\* The pcs of a tick of the browsing loop.
TickPcs ==
    BranchPcs \cup {"tick_login", "tick_cookies", "tick_wait", "tick_reload", "tick_idle",
                    "tick_sleep"}
\* With the duration zeroed the loop runs no tick: no scheduler action, no
\* cookie modification, the clock of the ticks never read.
ZeroDurationMeansNoTick ==
    browse_duration = 0 =>
        /\ pc \notin TickPcs
        /\ login.site # "tick"
        /\ performed = {} /\ ops = << >> /\ mod_status = "none"
        /\ current_time = 0

\* C18: when the navigation back to the start URL after the initial pause
\* has failed, the duration is zero, the loop runs no tick, and the session
\* ends with the browser closed and the completion message logged.
C18_FailedReturnEndsSession ==
    /\ ZeroDurationMeansNoTick
    /\ (browse_duration = 0 /\ pc \in {"done", "crashed"}) =>
          (browser_closed /\ complete_logged)

\* The zero-duration session that ends as the claim says.
C18_ZeroTickSessionCompleted ==
    /\ browse_duration = 0
    /\ pc = "done"
    /\ browser_closed /\ complete_logged
    /\ current_time = 0

====
